---- MODULE Spec2Model ----
(***************************************************************************)
(* Model of scripts/validate-templates.js: discovery of data.json files,   *)
(* per-file validation into the global report, rendering of the two report *)
(* artifacts and the exit code of the process.                             *)
(***************************************************************************)
EXTENDS Integers, Sequences, FiniteSets, TLC

(* ---------------------------------------------------------------- bounds *)
\* number of directory entries below the scan root
NumEntries == 3

(* ------------------------------------------------------------ file names *)
\* A file name is a sequence of text pieces, so that startsWith(".") is
\* computed from the name and not looked up.
DataJson == <<"data.json">>
NodeModules == <<"node_modules">>
DotGit == <<".", "git">>
Tpl == <<"tpl">>
Names == {DataJson, NodeModules, DotGit, Tpl}
Kinds == {"dir", "file", "link"}

\* process.cwd(), the scan root (absolute path as a sequence of names)
repoRoot == << <<"repo">> >>
templatesRoot == repoRoot

\* fs        the directory tree below the scan root
\* unreadableDirs  the directories of the tree whose read fails
\* pc        the line main() or validateFile() is at
\* files     the paths findDataJsonFiles returned
\* dirsRead  the directories readdirSync was called on, in call order
\* idx       the position of forEach in files
\* report    the global report object
\* result    the value safeParse returned in the running validateFile call
\* error     the value caught in the running validateFile call
\* outcomes  what reading, parsing and checking each visited file did
\* lines     the lines of the formatted report
\* written   what this run wrote to validation-report.json and .md
\* stdout, stderr, exitCode   the console and the exit code (-1: running)
VARIABLES fs, unreadableDirs, pc, files, dirsRead, idx, report, result, error, outcomes,
          lines, written, stdout, stderr, exitCode

vars == <<fs, unreadableDirs, pc, files, dirsRead, idx, report, result, error, outcomes,
          lines, written, stdout, stderr, exitCode>>

Entries == 1..NumEntries

\* The directory trees: entry n lives in directory parent (0 is the scan
\* root), only directories have children, names are unique in a directory.
\* readdirSync returns the entries of a directory in entry-number order.
FileSystems ==
    { f \in [Entries -> [parent : 0..(NumEntries - 1), name : Names, kind : Kinds]] :
        /\ \A n \in Entries : f[n].parent < n
        /\ \A n \in Entries : f[n].parent # 0 => f[f[n].parent].kind = "dir"
        /\ \A m, n \in Entries :
              (m # n /\ f[m].parent = f[n].parent) => f[m].name # f[n].name }

RECURSIVE PathOfEntry(_, _)
PathOfEntry(f, n) ==
    IF n = 0 THEN templatesRoot
    ELSE Append(PathOfEntry(f, f[n].parent), f[n].name)

\* the directories of the tree, the scan root included
DirPaths(f) ==
    {templatesRoot} \cup {PathOfEntry(f, n) : n \in {m \in Entries : f[m].kind = "dir"}}

RECURSIVE EntriesFrom(_, _, _)
EntriesFrom(f, dir, n) ==
    IF n > NumEntries THEN <<>>
    ELSE IF PathOfEntry(f, f[n].parent) = dir
         THEN <<[name |-> f[n].name, kind |-> f[n].kind]>> \o EntriesFrom(f, dir, n + 1)
         ELSE EntriesFrom(f, dir, n + 1)

\* fs.readdirSync(dir, { withFileTypes: true })
readdirSync(f, dir) == EntriesFrom(f, dir, 1)

\* entry.name.startsWith(".")
startsWith(name, prefix) == Len(name) >= 1 /\ name[1] = prefix

\* path.join(dir, name)
pathJoin(dir, name) == Append(dir, name)

\* path.relative(from, to) for a path to below from
pathRelative(from, to) ==
    IF Len(to) >= Len(from) /\ SubSeq(to, 1, Len(from)) = from
    THEN SubSeq(to, Len(from) + 1, Len(to))
    ELSE to

\* findDataJsonFiles(dir): the paths found, the directories readdirSync was
\* called on, and whether a readdirSync threw (unreadable: the directories
\* whose read fails).
RECURSIVE findDataJsonFiles(_, _, _)
RECURSIVE findLoop(_, _, _, _, _, _)
\* the loop without the node_modules test
findLoop_noNodeModulesCheck(f, unreadable, dir, entries, i, acc) ==
    IF i > Len(entries) THEN acc
    ELSE LET entry == entries[i] IN
         IF startsWith(entry.name, ".")
         THEN findLoop(f, unreadable, dir, entries, i + 1, acc)
         ELSE LET fullPath == pathJoin(dir, entry.name) IN
              IF entry.kind = "dir"
              THEN LET sub == findDataJsonFiles(f, unreadable, fullPath)
                       acc2 == [threw |-> sub.threw,
                                results |-> acc.results \o sub.results,
                                reads |-> acc.reads \o sub.reads]
                   IN IF sub.threw THEN acc2
                      ELSE findLoop(f, unreadable, dir, entries, i + 1, acc2)
              ELSE IF entry.kind = "file" /\ entry.name = DataJson
                   THEN findLoop(f, unreadable, dir, entries, i + 1,
                                 [acc EXCEPT !.results = Append(@, fullPath)])
                   ELSE findLoop(f, unreadable, dir, entries, i + 1, acc)

\* the loop treating a subdirectory that cannot be read as an empty one
findLoop_skipUnreadable(f, unreadable, dir, entries, i, acc) ==
    IF i > Len(entries) THEN acc
    ELSE LET entry == entries[i] IN
         IF entry.name = NodeModules \/ startsWith(entry.name, ".")
         THEN findLoop(f, unreadable, dir, entries, i + 1, acc)
         ELSE LET fullPath == pathJoin(dir, entry.name) IN
              IF entry.kind = "dir"
              THEN LET sub == findDataJsonFiles(f, unreadable, fullPath)
                       acc2 == [threw |-> FALSE,
                                results |-> acc.results \o sub.results,
                                reads |-> acc.reads \o sub.reads]
                   IN findLoop(f, unreadable, dir, entries, i + 1, acc2)
              ELSE IF entry.kind = "file" /\ entry.name = DataJson
                   THEN findLoop(f, unreadable, dir, entries, i + 1,
                                 [acc EXCEPT !.results = Append(@, fullPath)])
                   ELSE findLoop(f, unreadable, dir, entries, i + 1, acc)

\* lines 23-35: the loop over the entries of dir, from entry i on
findLoop(f, unreadable, dir, entries, i, acc) ==
    IF i > Len(entries) THEN acc
    ELSE LET entry == entries[i] IN
         IF entry.name = NodeModules \/ startsWith(entry.name, ".")
         THEN findLoop(f, unreadable, dir, entries, i + 1, acc)
         ELSE LET fullPath == pathJoin(dir, entry.name) IN
              IF entry.kind = "dir"
              THEN LET sub == findDataJsonFiles(f, unreadable, fullPath)
                       acc2 == [threw |-> sub.threw,
                                results |-> acc.results \o sub.results,
                                reads |-> acc.reads \o sub.reads]
                   IN IF sub.threw THEN acc2
                      ELSE findLoop(f, unreadable, dir, entries, i + 1, acc2)
              ELSE IF entry.kind = "file" /\ entry.name = DataJson
                   THEN findLoop(f, unreadable, dir, entries, i + 1,
                                 [acc EXCEPT !.results = Append(@, fullPath)])
                   ELSE findLoop(f, unreadable, dir, entries, i + 1, acc)

findDataJsonFiles(f, unreadable, dir) ==
    IF dir \in unreadable
    THEN [threw |-> TRUE, results |-> <<>>, reads |-> <<dir>>]
    ELSE findLoop(f, unreadable, dir, readdirSync(f, dir), 1,
                  [threw |-> FALSE, results |-> <<>>, reads |-> <<dir>>])

(* ------------------------------------------------- the schema validator *)
\* A path segment that Array.prototype.join cannot convert to a string
\* (a Symbol key): issue.path.join("/") throws a TypeError on it.
SymbolSegment == "Symbol()"

\* what TemplateV2Schema.safeParse can return on failure: result.error.issues
IssueLists ==
    { << [path |-> <<"a", "b">>, message |-> "m", code |-> "invalid_type"] >>,
      << [path |-> <<>>, message |-> "m", code |-> "parse_error"] >>,
      << [path |-> <<>>, message |-> "m", code |-> "custom"],
         [path |-> <<"a">>, message |-> "m", code |-> "parse_error"] >>,
      << [path |-> <<SymbolSegment>>, message |-> "m", code |-> "invalid_type"] >> }

SafeParseResults ==
    { [success |-> TRUE, issues |-> <<>>] } \cup
    { [success |-> FALSE, issues |-> il] : il \in IssueLists }

\* what the try block can throw before safeParse returns: readFileSync,
\* JSON.parse, or safeParse itself (possibly a value that is not an Error)
ThrownInTry ==
    { [at |-> "readFileSync", isError |-> TRUE, message |-> "ENOENT: no such file or directory"],
      [at |-> "JSON.parse", isError |-> TRUE, message |-> "Unexpected token in JSON"],
      [at |-> "safeParse", isError |-> TRUE, message |-> "validator failure"],
      [at |-> "safeParse", isError |-> FALSE, message |-> ""] }

TypeErrorSymbol == [at |-> "formatIssue", isError |-> TRUE, message |-> "Cannot convert a Symbol value to a string"]

\* Array.prototype.join(sep) on strings
RECURSIVE join(_, _)
join(segs, sep) ==
    IF Len(segs) = 0 THEN ""
    ELSE IF Len(segs) = 1 THEN segs[1]
    ELSE segs[1] \o sep \o join(Tail(segs), sep)

joinThrows(segs) == \E i \in 1..Len(segs) : segs[i] = SymbolSegment

formatIssue(issue) ==
    [path |-> join(issue.path, "/"), message |-> issue.message, code |-> issue.code]

\* result.error.issues.map(formatIssue)
mapFormatIssue(issues) == [i \in 1..Len(issues) |-> formatIssue(issues[i])]
mapThrows(issues) == \E i \in 1..Len(issues) : joinThrows(issues[i].path)

(* ------------------------------------------------------------ the report *)
EmptyReport ==
    [summary |-> [totalFiles |-> 0, valid |-> 0, invalid |-> 0, parseErrors |-> 0],
     files |-> <<>>]

\* the directories whose read can fail: none, or one directory of the tree
UnreadableChoices == {{}} \cup {{d} : d \in DirPaths(fs)}

Init ==
    /\ fs \in FileSystems
    /\ unreadableDirs \in UnreadableChoices
    /\ pc = "L81"
    /\ files = <<>>
    /\ dirsRead = <<>>
    /\ idx = 1
    /\ report = EmptyReport
    /\ result = <<>>
    /\ error = <<>>
    /\ outcomes = <<>>
    /\ lines = <<>>
    /\ written = [json |-> <<>>, md |-> <<>>]
    /\ stdout = <<>>
    /\ stderr = <<>>
    /\ exitCode = -1

\* an exception that leaves main(): node prints it and exits with code 1
Uncaught(what) ==
    /\ stderr' = Append(stderr, <<"Uncaught ", what>>)
    /\ exitCode' = 1
    /\ pc' = "exited"

\* line 81: const files = findDataJsonFiles(templatesRoot)
Discover ==
    /\ pc = "L81"
    /\ LET r == findDataJsonFiles(fs, unreadableDirs, templatesRoot) IN
         /\ dirsRead' = r.reads
         /\ IF r.threw
            THEN /\ Uncaught("readdirSync")
                 /\ UNCHANGED <<files, stdout>>
            ELSE /\ files' = r.results
                 /\ pc' = "L82"
                 /\ UNCHANGED <<stdout, stderr, exitCode>>
    /\ UNCHANGED <<fs, unreadableDirs, outcomes, idx, report, result, error, lines, written>>

\* main() going on to write the reports when no file was found
NoFiles_fallThrough ==
    /\ pc = "L82"
    /\ pc' = "L87"
    /\ IF Len(files) = 0
       THEN stdout' = Append(stdout, <<"No data.json files found.">>)
       ELSE UNCHANGED stdout
    /\ UNCHANGED exitCode
    /\ UNCHANGED <<fs, unreadableDirs, outcomes, files, dirsRead, idx, report, result, error, lines, written, stderr>>

\* lines 82-85: no file found
NoFiles ==
    /\ pc = "L82"
    /\ IF Len(files) = 0
       THEN /\ stdout' = Append(stdout, <<"No data.json files found.">>)
            /\ exitCode' = 0
            /\ pc' = "exited"
       ELSE /\ pc' = "L87"
            /\ UNCHANGED <<stdout, exitCode>>
    /\ UNCHANGED <<fs, unreadableDirs, outcomes, files, dirsRead, idx, report, result, error, lines, written, stderr>>

\* const relativePath = path.relative(templatesRoot, filePath)
relativePath == pathRelative(templatesRoot, files[idx])

\* line 87 calling validateFile on the next file, lines 46-47
ValidateEnter ==
    /\ pc = "L87"
    /\ idx <= Len(files)
    /\ report' = [report EXCEPT !.summary.totalFiles = @ + 1]
    /\ pc' = "L49"
    /\ UNCHANGED <<fs, unreadableDirs, outcomes, files, dirsRead, idx, result, error, lines, written, stdout, stderr, exitCode>>

\* lines 49-52: read, parse, safeParse
TryBody ==
    /\ pc = "L49"
    /\ \/ \E e \in ThrownInTry :
            /\ error' = <<e>>
            /\ outcomes' = Append(outcomes, [threw |-> TRUE, thrown |-> e,
                                             returned |-> [success |-> FALSE, issues |-> <<>>]])
            /\ pc' = "L64"
            /\ UNCHANGED result
       \/ \E r \in SafeParseResults :
            /\ result' = <<r>>
            /\ outcomes' = Append(outcomes, [threw |-> FALSE, thrown |-> TypeErrorSymbol,
                                             returned |-> r])
            /\ pc' = IF r.success THEN "L53" ELSE "L57"
            /\ UNCHANGED error
    /\ UNCHANGED <<fs, unreadableDirs, files, dirsRead, idx, report, lines, written, stdout, stderr, exitCode>>

\* return from validateFile: forEach moves to the next file
Return ==
    /\ idx' = idx + 1
    /\ result' = <<>>
    /\ error' = <<>>
    /\ pc' = "L87"

\* line 53
CountValid ==
    /\ pc = "L53"
    /\ report' = [report EXCEPT !.summary.valid = @ + 1]
    /\ pc' = "L54"
    /\ UNCHANGED <<fs, unreadableDirs, outcomes, files, dirsRead, idx, result, error, lines, written, stdout, stderr, exitCode>>

\* a valid result put at the front of report.files
PushValid_unshift ==
    /\ pc = "L54"
    /\ report' = [report EXCEPT !.files = <<[path |-> relativePath, valid |-> TRUE]>> \o @]
    /\ Return
    /\ UNCHANGED <<fs, unreadableDirs, outcomes, files, dirsRead, lines, written, stdout, stderr, exitCode>>

\* lines 54-55
PushValid ==
    /\ pc = "L54"
    /\ report' = [report EXCEPT !.files = Append(@, [path |-> relativePath, valid |-> TRUE])]
    /\ Return
    /\ UNCHANGED <<fs, unreadableDirs, outcomes, files, dirsRead, lines, written, stdout, stderr, exitCode>>

\* line 57
CountInvalid ==
    /\ pc = "L57"
    /\ report' = [report EXCEPT !.summary.invalid = @ + 1]
    /\ pc' = "L58"
    /\ UNCHANGED <<fs, unreadableDirs, outcomes, files, dirsRead, idx, result, error, lines, written, stdout, stderr, exitCode>>

\* lines 58-62: the argument of push is evaluated first and may throw
PushInvalid ==
    /\ pc = "L58"
    /\ IF mapThrows(result[1].issues)
       THEN /\ error' = <<TypeErrorSymbol>>
            /\ pc' = "L64"
            /\ UNCHANGED <<report, idx, result>>
       ELSE /\ report' = [report EXCEPT !.files =
                             Append(@, [path |-> relativePath, valid |-> FALSE,
                                        errors |-> mapFormatIssue(result[1].issues)])]
            /\ Return
    /\ UNCHANGED <<fs, unreadableDirs, outcomes, files, dirsRead, lines, written, stdout, stderr, exitCode>>

\* the catch block not counting the parse error
CatchCountParseError_skipped ==
    /\ pc = "L64"
    /\ pc' = "L65"
    /\ UNCHANGED <<fs, unreadableDirs, outcomes, files, dirsRead, idx, report, result, error, lines, written, stdout, stderr, exitCode>>

\* line 64
CatchCountParseError ==
    /\ pc = "L64"
    /\ report' = [report EXCEPT !.summary.parseErrors = @ + 1]
    /\ pc' = "L65"
    /\ UNCHANGED <<fs, unreadableDirs, outcomes, files, dirsRead, idx, result, error, lines, written, stdout, stderr, exitCode>>

\* the catch block counting the parse error only
CatchCountInvalid_skipped ==
    /\ pc = "L65"
    /\ pc' = "L66"
    /\ UNCHANGED <<fs, unreadableDirs, outcomes, files, dirsRead, idx, report, result, error, lines, written, stdout, stderr, exitCode>>

\* line 65
CatchCountInvalid ==
    /\ pc = "L65"
    /\ report' = [report EXCEPT !.summary.invalid = @ + 1]
    /\ pc' = "L66"
    /\ UNCHANGED <<fs, unreadableDirs, outcomes, files, dirsRead, idx, result, error, lines, written, stdout, stderr, exitCode>>

\* the catch block reporting the failure under another code
CatchPush_otherCode ==
    /\ pc = "L66"
    /\ report' = [report EXCEPT !.files =
                     Append(@, [path |-> relativePath, valid |-> FALSE,
                                errors |-> << [path |-> "",
                                               message |-> IF error[1].isError
                                                           THEN error[1].message
                                                           ELSE "Unknown JSON parse error",
                                               code |-> "read_error"] >>])]
    /\ Return
    /\ UNCHANGED <<fs, unreadableDirs, outcomes, files, dirsRead, lines, written, stdout, stderr, exitCode>>

\* lines 66-76
CatchPush ==
    /\ pc = "L66"
    /\ report' = [report EXCEPT !.files =
                     Append(@, [path |-> relativePath, valid |-> FALSE,
                                errors |-> << [path |-> "",
                                               message |-> IF error[1].isError
                                                           THEN error[1].message
                                                           ELSE "Unknown JSON parse error",
                                               code |-> "parse_error"] >>])]
    /\ Return
    /\ UNCHANGED <<fs, unreadableDirs, outcomes, files, dirsRead, lines, written, stdout, stderr, exitCode>>

reportJsonPath == pathJoin(repoRoot, <<"validation-report.json">>)
reportMdPath == pathJoin(repoRoot, <<"validation-report.md">>)

\* line 92, reached when forEach has visited every file
WriteJson ==
    /\ pc = "L87"
    /\ idx > Len(files)
    /\ \E ok \in BOOLEAN :
         IF ok
         THEN /\ written' = [written EXCEPT !.json = <<report>>]
              /\ pc' = "L94"
              /\ UNCHANGED <<stderr, exitCode>>
         ELSE /\ Uncaught("writeFileSync")
              /\ UNCHANGED written
    /\ UNCHANGED <<fs, unreadableDirs, outcomes, files, dirsRead, idx, report, result, error, lines, stdout>>

\* lines 107-112: the section of one invalid file (the backquotes around
\* the issue path are written ' here)
RECURSIVE issueLines(_, _)
issueLines(errors, i) ==
    IF i > Len(errors) THEN <<>>
    ELSE LET err == errors[i]
             issuePath == IF err.path # "" THEN "'" \o err.path \o "'" ELSE "'<root>'"
         IN << <<"- ", issuePath, ": ", err.message, " (", err.code, ")">> >>
              \o issueLines(errors, i + 1)

fileSection(file) ==
    << <<"## ", file.path>> >>
      \o issueLines(IF "errors" \in DOMAIN file THEN file.errors ELSE <<>>, 1)
      \o << <<"">> >>

\* lines 103-113
RECURSIVE fileSections(_, _)
fileSections(fileList, i) ==
    IF i > Len(fileList) THEN <<>>
    ELSE IF fileList[i].valid THEN fileSections(fileList, i + 1)
    ELSE fileSection(fileList[i]) \o fileSections(fileList, i + 1)

\* lines 94-113
renderLines(rep) ==
    << <<"# Template Validation Report">>,
       <<"">>,
       <<"- Total files: ", ToString(rep.summary.totalFiles)>>,
       <<"- Valid: ", ToString(rep.summary.valid)>>,
       <<"- Invalid: ", ToString(rep.summary.invalid)>>,
       <<"- Parse errors: ", ToString(rep.summary.parseErrors)>>,
       <<"">> >>
      \o fileSections(rep.files, 1)

Render ==
    /\ pc = "L94"
    /\ lines' = renderLines(report)
    /\ pc' = "L115"
    /\ UNCHANGED <<fs, unreadableDirs, outcomes, files, dirsRead, idx, report, result, error, written, stdout, stderr, exitCode>>

\* a failed write of the formatted report being ignored
WriteMd_ignoreFailure ==
    /\ pc = "L115"
    /\ \E ok \in BOOLEAN :
         IF ok
         THEN written' = [written EXCEPT !.md = <<lines>>]
         ELSE UNCHANGED written
    /\ pc' = "L117"
    /\ UNCHANGED <<stderr, exitCode>>
    /\ UNCHANGED <<fs, unreadableDirs, outcomes, files, dirsRead, idx, report, result, error, lines, stdout>>

\* line 115
WriteMd ==
    /\ pc = "L115"
    /\ \E ok \in BOOLEAN :
         IF ok
         THEN /\ written' = [written EXCEPT !.md = <<lines>>]
              /\ pc' = "L117"
              /\ UNCHANGED <<stderr, exitCode>>
         ELSE /\ Uncaught("writeFileSync")
              /\ UNCHANGED written
    /\ UNCHANGED <<fs, unreadableDirs, outcomes, files, dirsRead, idx, report, result, error, lines, stdout>>

\* Decide gating on the counter parseErrors instead of invalid
Decide_onParseErrors ==
    /\ pc = "L117"
    /\ IF report.summary.parseErrors > 0
       THEN /\ stderr' = stderr \o
                 << <<"Validation failed: ", ToString(report.summary.invalid), " file(s) invalid.">>,
                    <<"Report: ", reportMdPath>> >>
            /\ exitCode' = 1
            /\ UNCHANGED stdout
       ELSE /\ stdout' = stdout \o
                 << <<"All templates valid.">>, <<"Report: ", reportMdPath>> >>
            /\ exitCode' = 0
            /\ UNCHANGED stderr
    /\ pc' = "exited"
    /\ UNCHANGED <<fs, unreadableDirs, outcomes, files, dirsRead, idx, report, result, error, lines, written>>

\* lines 117-125; falling off the end of main() exits with code 0
Decide ==
    /\ pc = "L117"
    /\ IF report.summary.invalid > 0
       THEN /\ stderr' = stderr \o
                 << <<"Validation failed: ", ToString(report.summary.invalid), " file(s) invalid.">>,
                    <<"Report: ", reportMdPath>> >>
            /\ exitCode' = 1
            /\ UNCHANGED stdout
       ELSE /\ stdout' = stdout \o
                 << <<"All templates valid.">>, <<"Report: ", reportMdPath>> >>
            /\ exitCode' = 0
            /\ UNCHANGED stderr
    /\ pc' = "exited"
    /\ UNCHANGED <<fs, unreadableDirs, outcomes, files, dirsRead, idx, report, result, error, lines, written>>

Next ==
    \/ Discover
    \/ NoFiles
    \/ ValidateEnter
    \/ TryBody
    \/ CountValid
    \/ PushValid
    \/ CountInvalid
    \/ PushInvalid
    \/ CatchCountParseError
    \/ CatchCountInvalid
    \/ CatchPush
    \/ WriteJson
    \/ Render
    \/ WriteMd
    \/ Decide

Spec == Init /\ [][Next]_vars

TypeOK ==
    /\ exitCode \in {-1, 0, 1}
    /\ idx \in 1..(Len(files) + 1)

(* ------------------------------------------------------------ properties *)
totalFiles == report.summary.totalFiles
valid == report.summary.valid
invalid == report.summary.invalid
parseErrors == report.summary.parseErrors

\* a validateFile call is running
InValidateFile == pc \in {"L49", "L53", "L54", "L57", "L58", "L64", "L65", "L66"}

\* the exception printed when findDataJsonFiles threw out of main()
DiscoveryThrew ==
    /\ Len(stderr) > 0
    /\ stderr[1][1] = "Uncaught "
    /\ stderr[1][2] = "readdirSync"

\* findDataJsonFiles returned
DiscoveryReturned == pc # "L81" /\ ~DiscoveryThrew

AllFilesValid == \A k \in 1..Len(report.files) : report.files[k].valid

BothWritten == written.json # <<>> /\ written.md # <<>>

\* C1 as stated: when at least one data.json file was discovered, the
\* process exits with code 1 exactly when the counter invalid is positive,
\* and with code 0 when every discovered file is valid.
C1_ExitOneIffInvalid ==
    (pc = "exited" /\ Len(files) > 0) =>
        /\ exitCode = 1 <=> invalid > 0
        /\ AllFilesValid => exitCode = 0

\* C1 amended: the exit code follows the counter invalid when both report
\* files were written; when a write fails the process exits with code 1
\* whatever the counter is.
C1_ExitOneIffInvalidWhenWritten ==
    (pc = "exited" /\ Len(files) > 0) =>
        IF BothWritten
        THEN /\ exitCode = 1 <=> invalid > 0
             /\ AllFilesValid => exitCode = 0
        ELSE exitCode = 1

C1_Witness ==
    /\ pc = "exited"
    /\ Len(files) = 2
    /\ BothWritten
    /\ valid = 1
    /\ invalid = 1
    /\ exitCode = 1

\* C2 as stated: after any sequence of validateFile calls, whatever each
\* call met, totalFiles = valid + invalid and valid + invalid is the number
\* of entries of report.files.
C2_CountersAddUp ==
    (DiscoveryReturned /\ ~InValidateFile) =>
        /\ totalFiles = valid + invalid
        /\ valid + invalid = Len(report.files)

\* C3 as stated: parseErrors <= invalid in every state the report passes
\* through.
C3_ParseErrorsLeInvalid == parseErrors <= invalid

\* C3 amended: parseErrors <= invalid in every state except the one between
\* the two increments of the catch block (line 64 done, line 65 not yet).
C3_ParseErrorsLeInvalidOutsideCatch == pc # "L65" => parseErrors <= invalid

C3_Witness ==
    /\ pc = "L87"
    /\ Len(report.files) = 2
    /\ parseErrors = 2
    /\ invalid = 2

\* the entry validateFile leaves for a file it could not read or parse
IsParseErrorEntry(e) ==
    /\ ~e.valid
    /\ Len(e.errors) = 1
    /\ e.errors[1].path = ""
    /\ e.errors[1].code = "parse_error"

ReadOrParseFailed(k) ==
    /\ outcomes[k].threw
    /\ outcomes[k].thrown.at \in {"readFileSync", "JSON.parse"}

EntriesFor(k) ==
    {j \in 1..Len(report.files) : report.files[j].path = pathRelative(templatesRoot, files[k])}

\* C4: a file that cannot be read or parsed leaves exactly one entry, with
\* valid = false and the single issue {path: "", code: "parse_error"}; the
\* failure stays inside validateFile (no uncaught exception ends the run
\* there), and every later file is still validated.
C4_ParseFailureIsolated ==
    \A k \in 1..Len(outcomes) :
        ReadOrParseFailed(k) =>
            /\ idx > k =>
                  /\ Cardinality(EntriesFor(k)) = 1
                  /\ IsParseErrorEntry(report.files[k])
            /\ Len(stderr) > 0 => stderr[1][1] # "Uncaught " \/ idx > Len(files)
            /\ pc \in {"L94", "L115", "L117", "exited"} =>
                  /\ Len(outcomes) = Len(files)
                  /\ Len(report.files) = Len(files)

C4_Witness ==
    /\ pc = "exited"
    /\ Len(files) = 2
    /\ ReadOrParseFailed(1)
    /\ ~outcomes[2].threw
    /\ report.files[2].valid
    /\ IsParseErrorEntry(report.files[1])

\* C5: when discovery returns no file, the run ends with exit code 0 after
\* the message "No data.json files found.", and neither report file is
\* written.
C5_NoFilesExitZero ==
    (DiscoveryReturned /\ Len(files) = 0) =>
        /\ written = [json |-> <<>>, md |-> <<>>]
        /\ pc \in {"L82", "exited"}
        /\ pc = "exited" =>
              /\ exitCode = 0
              /\ stdout = << <<"No data.json files found.">> >>
              /\ stderr = <<>>

C5_Witness ==
    /\ pc = "exited"
    /\ DiscoveryReturned
    /\ Len(files) = 0
    /\ \E n \in Entries : fs[n].name = DataJson /\ fs[n].kind = "file"

\* a hidden name or the dependency directory
ExcludedName(name) == name = NodeModules \/ name[1] = "."

ExcludedDir(n) == fs[n].kind = "dir" /\ ExcludedName(fs[n].name)

\* entry n, or a directory above it, is an excluded directory
RECURSIVE InExcludedDir(_)
InExcludedDir(n) ==
    IF n = 0 THEN FALSE
    ELSE ExcludedDir(n) \/ InExcludedDir(fs[n].parent)

BeneathExcludedDir(n) == InExcludedDir(fs[n].parent)

InSeq(x, seq) == \E i \in 1..Len(seq) : seq[i] = x

\* C6: a data.json below a directory whose name starts with "." or is
\* node_modules is never in the result of findDataJsonFiles and never has an
\* entry in report.files, and such a directory is never read.
C6_ExcludedPruned ==
    \A n \in Entries :
        /\ BeneathExcludedDir(n) =>
              /\ ~InSeq(PathOfEntry(fs, n), files)
              /\ \A j \in 1..Len(report.files) :
                    report.files[j].path # pathRelative(templatesRoot, PathOfEntry(fs, n))
        /\ InExcludedDir(n) => ~InSeq(PathOfEntry(fs, n), dirsRead)

C6_Witness ==
    /\ pc = "exited"
    /\ Len(report.files) = 1
    /\ \E n \in Entries :
          /\ fs[n].name = DataJson
          /\ fs[n].kind = "file"
          /\ fs[n].parent # 0
          /\ fs[fs[n].parent].name = NodeModules

\* C7: every discovered file has exactly one entry in report.files, also
\* when its read or parse failed, and the k-th entry is the result of the
\* k-th discovered file.
C7_OneEntryPerFileInOrder ==
    /\ Len(report.files) = idx - 1
    /\ Len(report.files) <= Len(files)
    /\ \A k \in 1..Len(report.files) :
          /\ report.files[k].path = pathRelative(templatesRoot, files[k])
          /\ report.files[k].valid <=> (~outcomes[k].threw /\ outcomes[k].returned.success)
    /\ pc \in {"L94", "L115", "L117"} => Len(report.files) = Len(files)
    /\ (pc = "exited" /\ DiscoveryReturned) => Len(report.files) = Len(files)

C7_Witness ==
    /\ pc = "exited"
    /\ Len(files) = 2
    /\ outcomes[1].threw
    /\ ~report.files[1].valid
    /\ report.files[2].valid

\* the paths of the "## " lines of the formatted report, in order
RECURSIVE sectionPaths(_, _)
sectionPaths(ls, i) ==
    IF i > Len(ls) THEN <<>>
    ELSE IF ls[i][1] = "## " THEN <<ls[i][2]>> \o sectionPaths(ls, i + 1)
    ELSE sectionPaths(ls, i + 1)

\* the paths of the invalid entries of report.files, in order
RECURSIVE invalidPaths(_, _)
invalidPaths(fileList, i) ==
    IF i > Len(fileList) THEN <<>>
    ELSE IF fileList[i].valid THEN invalidPaths(fileList, i + 1)
    ELSE <<fileList[i].path>> \o invalidPaths(fileList, i + 1)

\* C8 as stated: the formatted report has one "## <path>" section per
\* invalid file and none for valid files: their number is the counter
\* invalid, and they come in the order of the invalid entries of report.files.
C8_SectionsAreInvalidFiles ==
    pc \in {"L115", "L117"} \/ (pc = "exited" /\ Len(lines) > 0) =>
        /\ Len(sectionPaths(lines, 1)) = invalid
        /\ sectionPaths(lines, 1) = invalidPaths(report.files, 1)

\* the run ended on a failed write of a report file
WriteFailed == pc = "exited" /\ Len(files) > 0 /\ ~BothWritten

HasLine(out, text) == \E i \in 1..Len(out) : out[i][1] = text

\* C9: when writing a report file fails, the run does not exit with code 0,
\* does not print "All templates valid.", and does not look like a
\* validation failure: "Validation failed" is not printed, the uncaught
\* exception is.
C9_WriteFailureNotSuccess ==
    WriteFailed =>
        /\ exitCode # 0
        /\ ~HasLine(stdout, "All templates valid.")
        /\ ~HasLine(stderr, "Validation failed: ")
        /\ HasLine(stderr, "Uncaught ")

C9_Witness ==
    /\ WriteFailed
    /\ written.json # <<>>
    /\ invalid = 0

\* the entry's only issue has the code "parse_error"
SoleParseError(e) ==
    /\ ~e.valid
    /\ Len(e.errors) = 1
    /\ e.errors[1].code = "parse_error"

\* the call for file k ended in the catch block
Caught(k) ==
    \/ outcomes[k].threw
    \/ ~outcomes[k].returned.success /\ mapThrows(outcomes[k].returned.issues)

\* C10 as stated: parseErrors is incremented for an invalid result exactly
\* when the result's only issue has the code "parse_error", also for a
\* result of the schema validator (success = false, one "parse_error" issue).
C10_ParseErrorsCountSoleParseError ==
    ~InValidateFile =>
        parseErrors = Cardinality({k \in 1..Len(report.files) : SoleParseError(report.files[k])})

\* C10 amended: parseErrors is incremented for a result exactly when the
\* result comes from the catch block; such a result's only issue has the
\* code "parse_error", but a result of the schema validator with a single
\* "parse_error" issue leaves parseErrors as it was.
C10_ParseErrorsCountCaught ==
    ~InValidateFile =>
        /\ parseErrors = Cardinality({k \in 1..Len(report.files) : Caught(k)})
        /\ \A k \in 1..Len(report.files) : Caught(k) => SoleParseError(report.files[k])

C10_Witness ==
    /\ pc = "L87"
    /\ Len(report.files) = 2
    /\ Caught(1)
    /\ ~Caught(2)
    /\ SoleParseError(report.files[2])
    /\ parseErrors = 1

\* the directories of the tree that are neither excluded nor below an
\* excluded directory, the scan root included
NonExcludedDirPaths ==
    {templatesRoot} \cup
    {PathOfEntry(fs, n) : n \in {m \in Entries : fs[m].kind = "dir" /\ ~InExcludedDir(m)}}

\* C11: when a directory in the non-excluded part of the tree cannot be
\* read, discovery aborts the run: no file is validated, neither report file
\* is written, and the process does not exit with code 0.
C11_DiscoveryErrorAborts ==
    (unreadableDirs \cap NonExcludedDirPaths # {}) =>
        /\ pc \in {"L81", "exited"}
        /\ files = <<>>
        /\ outcomes = <<>>
        /\ report = EmptyReport
        /\ written = [json |-> <<>>, md |-> <<>>]
        /\ exitCode # 0
        /\ pc = "exited" => exitCode = 1 /\ DiscoveryThrew /\ stdout = <<>>

C11_Witness ==
    /\ pc = "exited"
    /\ DiscoveryThrew
    /\ templatesRoot \notin unreadableDirs
    /\ Len(dirsRead) = 2
    /\ \E n \in Entries :
          /\ fs[n].name = DataJson
          /\ fs[n].kind = "file"
          /\ fs[n].parent = 0

====
